---------------------------- MODULE Spec2Model ----------------------------
(***************************************************************************)
(* FEN decoding and encoding of a chess Game (src/chess/game/fen.rs).      *)
(*                                                                         *)
(* A string is a sequence of one-character strings.  A Result is a record  *)
(* [tag, err, val]: tag "Ok" carries val, tag "Err" carries the name of    *)
(* the FromFenError variant in err, tag "Panic" is a Rust panic and        *)
(* carries its message in err.  An Option<(usize, usize)> is <<>> for None *)
(* and <<x, y>> for Some((x, y)).                                          *)
(***************************************************************************)
EXTENDS Integers, Sequences, FiniteSets

VARIABLES
    fen_in,           \* the &str handed to Game::from_fen
    field,            \* the &str handed to castling_part / en_passant
    overflow_checks,  \* build profile: TRUE panics on usize overflow, FALSE wraps
    tile_oob_panics,  \* Board::get_tile off the board: TRUE panics, FALSE returns None
    pc,               \* which call has returned last
    decoded,          \* Result of Game::from_fen(fen_in)
    game,             \* the Game that Game::fen is called on
    encoded,          \* Result of game.fen()
    redecoded,        \* Result of Game::from_fen(encoded)
    field_result      \* Result of castling_part(field) / en_passant(field)

vars == <<fen_in, field, overflow_checks, tile_oob_panics, pc, decoded, game,
          encoded, redecoded, field_result>>

---------------------------------------------------------------------------
(* Bounds of the model. *)

\* usize is modelled UsizeBits wide (TLC's integers are 32 bits wide); every
\* value the program computes without wrapping is below 2^8.
UsizeBits == 16

\* castling fields of up to this many characters are enumerated
MaxCastlingLen == 5

\* en-passant fields of up to this many characters are enumerated
MaxEnPassantLen == 3

---------------------------------------------------------------------------
(* Results, characters, machine integers. *)

NoVal == <<>>

Ok(v) == [tag |-> "Ok", err |-> "", val |-> v]

Err(e) == [tag |-> "Err", err |-> e, val |-> NoVal]

Panic(m) == [tag |-> "Panic", err |-> m, val |-> NoVal]

\* the printable ASCII characters, code 32 first (code 96 is spelled out:
\* the lexer does not take a grave accent inside a string)
Ascii ==
    <<" ","!","\"","#","$","%","&","'","(",")","*","+",",","-",".","/",
      "0","1","2","3","4","5","6","7","8","9",":",";","<","=",">","?",
      "@","A","B","C","D","E","F","G","H","I","J","K","L","M","N","O",
      "P","Q","R","S","T","U","V","W","X","Y","Z","[","\\","]","^","_",
      "<grave>","a","b","c","d","e","f","g","h","i","j","k","l","m","n","o",
      "p","q","r","s","t","u","v","w","x","y","z","{","|","}","~">>

\* c as usize
Ord(c) == 31 + CHOOSE i \in 1..Len(Ascii) : Ascii[i] = c

\* char::from(n as u8)
CharFromU8(n) ==
    LET b == n % 256
    IN  IF b \in 32..126 THEN Ascii[b - 31] ELSE "<unprintable>"

UsizeModulus == 2 ^ UsizeBits

\* a + b on usize
UsizeAdd(a, b, checks) ==
    IF a + b < UsizeModulus THEN Ok(a + b)
    ELSE IF checks THEN Panic("attempt to add with overflow")
    ELSE Ok((a + b) % UsizeModulus)

\* a - b on usize
UsizeSub(a, b, checks) ==
    IF a >= b THEN Ok(a - b)
    ELSE IF checks THEN Panic("attempt to subtract with overflow")
    ELSE Ok((a - b) % UsizeModulus)

\* str::split(sep).collect::<Vec<&str>>(): one more piece than separators
RECURSIVE SplitFrom(_, _, _, _)
SplitFrom(s, sep, i, cur) ==
    IF i > Len(s) THEN <<cur>>
    ELSE IF s[i] = sep THEN <<cur>> \o SplitFrom(s, sep, i + 1, <<>>)
    ELSE SplitFrom(s, sep, i + 1, Append(cur, s[i]))

Split(s, sep) == SplitFrom(s, sep, 1, <<>>)

\* the characters of a sequence, as the HashSet<&char> of line 146
CharSet(chars) == {chars[i] : i \in 1..Len(chars)}

---------------------------------------------------------------------------
(* The board collaborator: Board::from_fen, Board::fen, Board::get_tile.   *)
(* A Board is 64 tiles, rank 8 first (internal rank index 0), each a       *)
(* placement letter or " " for an empty tile.                              *)

BoardSize == 8

PieceLetters == {"p","n","b","r","q","k","P","N","B","R","Q","K"}

DigitLetters == {"1","2","3","4","5","6","7","8"}

DigitValue(c) == Ord(c) - Ord("0")

Blank(n) == [i \in 1..n |-> " "]

RECURSIVE ParsePlacement(_, _, _, _)
ParsePlacement(s, i, tiles, col) ==
    IF i > Len(s)
    THEN IF col = BoardSize /\ Len(tiles) = BoardSize * BoardSize
         THEN Ok(tiles) ELSE Err("InvalidPlacement")
    ELSE IF s[i] = "/"
    THEN IF col = BoardSize /\ Len(tiles) < BoardSize * BoardSize
         THEN ParsePlacement(s, i + 1, tiles, 0) ELSE Err("InvalidPlacement")
    ELSE IF s[i] \in DigitLetters
    THEN IF col + DigitValue(s[i]) <= BoardSize
         THEN ParsePlacement(s, i + 1, tiles \o Blank(DigitValue(s[i])),
                             col + DigitValue(s[i]))
         ELSE Err("InvalidPlacement")
    ELSE IF s[i] \in PieceLetters
    THEN IF col + 1 <= BoardSize
         THEN ParsePlacement(s, i + 1, Append(tiles, s[i]), col + 1)
         ELSE Err("InvalidPlacement")
    ELSE Err("InvalidPlacement")

\* Board::from_fen
Board_from_fen(s) == ParsePlacement(s, 1, <<>>, 0)

RECURSIVE RenderPlacement(_, _, _)
RenderPlacement(tiles, i, run) ==
    LET flush == IF run > 0 THEN <<CharFromU8(Ord("0") + run)>> ELSE <<>>
    IN  IF i > Len(tiles) THEN flush
        ELSE LET sep == IF i > 1 /\ (i - 1) % BoardSize = 0 THEN <<"/">> ELSE <<>>
                 brk == IF sep = <<>> THEN <<>> ELSE flush
                 r   == IF sep = <<>> THEN run ELSE 0
             IN  IF tiles[i] = " "
                 THEN brk \o sep \o RenderPlacement(tiles, i + 1, r + 1)
                 ELSE brk \o sep
                      \o (IF r > 0 THEN <<CharFromU8(Ord("0") + r)>> ELSE <<>>)
                      \o <<tiles[i]>> \o RenderPlacement(tiles, i + 1, 0)

\* Board::fen
Board_fen(board) == RenderPlacement(board, 1, 0)

NoPiece == [piece_type |-> "None", color |-> "None"]

PieceTypeOf(c) ==
    IF c \in {"p", "P"} THEN "Pawn"
    ELSE IF c \in {"n", "N"} THEN "Knight"
    ELSE IF c \in {"b", "B"} THEN "Bishop"
    ELSE IF c \in {"r", "R"} THEN "Rook"
    ELSE IF c \in {"q", "Q"} THEN "Queen"
    ELSE "King"

PieceOf(c) ==
    IF c = " " THEN NoPiece
    ELSE [piece_type |-> PieceTypeOf(c),
          color |-> IF c \in {"P","N","B","R","Q","K"} THEN "White" ELSE "Black"]

OnBoard(x, y) == x \in 0..(BoardSize - 1) /\ y \in 0..(BoardSize - 1)

\* Board::get_tile: Ok(NoPiece) is None, Ok(piece) is Some(piece)
get_tile(board, x, y, oob_panics) ==
    IF OnBoard(x, y) THEN Ok(PieceOf(board[y * BoardSize + x + 1]))
    ELSE IF oob_panics THEN Panic("index out of bounds")
    ELSE Ok(NoPiece)

---------------------------------------------------------------------------
(* The two field parsers. *)

\* CastlingLoop with the two black flags exchanged
RECURSIVE CastlingLoop_BlackSwapped(_, _, _)
CastlingLoop_BlackSwapped(chars, i, castling) ==
    IF i > Len(chars) THEN Ok(castling)
    ELSE IF chars[i] = "K"
    THEN CastlingLoop_BlackSwapped(chars, i + 1, [castling EXCEPT ![1] = TRUE])
    ELSE IF chars[i] = "Q"
    THEN CastlingLoop_BlackSwapped(chars, i + 1, [castling EXCEPT ![2] = TRUE])
    ELSE IF chars[i] = "k"
    THEN CastlingLoop_BlackSwapped(chars, i + 1, [castling EXCEPT ![4] = TRUE])
    ELSE IF chars[i] = "q"
    THEN CastlingLoop_BlackSwapped(chars, i + 1, [castling EXCEPT ![3] = TRUE])
    ELSE Err("UnknownCharacter")

\* the loop of lines 150-158 from character i on
RECURSIVE CastlingLoop(_, _, _)
CastlingLoop(chars, i, castling) ==
    IF i > Len(chars) THEN Ok(castling)
    ELSE IF chars[i] = "K" THEN CastlingLoop(chars, i + 1, [castling EXCEPT ![1] = TRUE])
    ELSE IF chars[i] = "Q" THEN CastlingLoop(chars, i + 1, [castling EXCEPT ![2] = TRUE])
    ELSE IF chars[i] = "k" THEN CastlingLoop(chars, i + 1, [castling EXCEPT ![3] = TRUE])
    ELSE IF chars[i] = "q" THEN CastlingLoop(chars, i + 1, [castling EXCEPT ![4] = TRUE])
    ELSE Err("UnknownCharacter")

\* castling_part looking for an unknown character before a repeated one
castling_part_UnknownFirst(fen_part) ==
    IF fen_part = <<"-">> THEN Ok(<<FALSE, FALSE, FALSE, FALSE>>)
    ELSE IF Len(fen_part) > 4 THEN Err("IncorrectLength")
    ELSE IF \E i \in 1..Len(fen_part) : fen_part[i] \notin {"K", "Q", "k", "q"}
    THEN Err("UnknownCharacter")
    ELSE IF Len(fen_part) # Cardinality(CharSet(fen_part))
    THEN Err("RepeatingCharactersInCastlingPart")
    ELSE CastlingLoop(fen_part, 1, <<FALSE, FALSE, FALSE, FALSE>>)

castling_part(fen_part) ==
    IF fen_part = <<"-">> THEN Ok(<<FALSE, FALSE, FALSE, FALSE>>)
    ELSE IF Len(fen_part) > 4 THEN Err("IncorrectLength")
    ELSE IF Len(fen_part) # Cardinality(CharSet(fen_part))
    THEN Err("RepeatingCharactersInCastlingPart")
    ELSE CastlingLoop(fen_part, 1, <<FALSE, FALSE, FALSE, FALSE>>)

Files == <<"a", "b", "c", "d", "e", "f", "g", "h">>

Ranks == <<"8", "7", "6", "5", "4", "3", "2", "1">>

\* the index of c in table t, from 0 (the match arms of lines 174-197)
IndexIn(t, c) == (CHOOSE i \in 1..Len(t) : t[i] = c) - 1

\* en_passant with the rank axis not inverted: '1' gives 0 and '8' gives 7
en_passant_RankNotInverted(fen_part) ==
    IF fen_part = <<"-">> THEN Ok(<<>>)
    ELSE IF Len(fen_part) # 2 THEN Err("IncorrectAmountOfTiles")
    ELSE IF fen_part[1] \notin CharSet(Files) THEN Err("UnknownCharacter")
    ELSE IF fen_part[2] \notin CharSet(Ranks) THEN Err("UnknownCharacter")
    ELSE Ok(<<IndexIn(Files, fen_part[1]), 7 - IndexIn(Ranks, fen_part[2])>>)

en_passant(fen_part) ==
    IF fen_part = <<"-">> THEN Ok(<<>>)
    ELSE IF Len(fen_part) # 2 THEN Err("IncorrectAmountOfTiles")
    ELSE IF fen_part[1] \notin CharSet(Files) THEN Err("UnknownCharacter")
    ELSE IF fen_part[2] \notin CharSet(Ranks) THEN Err("UnknownCharacter")
    ELSE Ok(<<IndexIn(Files, fen_part[1]), IndexIn(Ranks, fen_part[2])>>)

---------------------------------------------------------------------------
(* Game::from_fen and Game::fen. *)

MakeGame(board, turn, ep, castling) ==
    [board |-> board, turn |-> turn, en_passant |-> ep,
     white_kingside_castle |-> castling[1],
     white_queenside_castle |-> castling[2],
     black_kingside_castle |-> castling[3],
     black_queenside_castle |-> castling[4]]

\* lines 36-40
TurnOf(fen_part_turn) ==
    IF fen_part_turn = <<"w">> THEN Ok("White")
    ELSE IF fen_part_turn = <<"b">> THEN Ok("Black")
    ELSE Err("UnknownTurn")

\* lines 48-52: the rank of the pawn that can be captured
DecodeEpRank(turn, ep_y, checks) ==
    IF turn = "White" THEN UsizeAdd(ep_y, 1, checks) ELSE UsizeSub(ep_y, 1, checks)

\* DecodeEnPassant taking a pawn of either color
DecodeEnPassant_AnyPawn(board, turn, ep, checks, oob_panics) ==
    IF ep = <<>> THEN Ok(<<>>)
    ELSE LET ep_x == ep[1]
             ep_y == DecodeEpRank(turn, ep[2], checks)
             ocp_piece == get_tile(board, ep_x, ep_y.val, oob_panics)
         IN  IF ep_y.tag # "Ok" THEN ep_y
             ELSE IF ocp_piece.tag # "Ok" THEN ocp_piece
             ELSE IF ocp_piece.val = NoPiece THEN Err("InvalidEnPassant")
             ELSE IF ocp_piece.val.piece_type # "Pawn" THEN Err("InvalidEnPassant")
             ELSE Ok(<<ep_x, ep_y.val>>)

\* lines 46-67, for a parsed square ep of the en-passant field
DecodeEnPassant(board, turn, ep, checks, oob_panics) ==
    IF ep = <<>> THEN Ok(<<>>)
    ELSE LET ep_x == ep[1]
             ep_y == DecodeEpRank(turn, ep[2], checks)
             ocp_piece == get_tile(board, ep_x, ep_y.val, oob_panics)
         IN  IF ep_y.tag # "Ok" THEN ep_y
             ELSE IF ocp_piece.tag # "Ok" THEN ocp_piece
             ELSE IF ocp_piece.val = NoPiece THEN Err("InvalidEnPassant")
             ELSE IF ocp_piece.val.piece_type # "Pawn" \/ ocp_piece.val.color = turn
             THEN Err("InvalidEnPassant")
             ELSE Ok(<<ep_x, ep_y.val>>)

from_fen(s, checks, oob_panics) ==
    LET fen_parts == Split(s, " ")
    IN  IF Len(fen_parts) < 4 THEN Panic("index out of bounds")
        ELSE IF Len(fen_parts) # 4 THEN Err("IncorrectAmountOfParts")
        ELSE LET board == Board_from_fen(fen_parts[1])
                 turn == TurnOf(fen_parts[2])
                 castling == castling_part(fen_parts[3])
                 ep == en_passant(fen_parts[4])
                 ep2 == DecodeEnPassant(board.val, turn.val, ep.val, checks, oob_panics)
             IN  IF board.tag # "Ok" THEN board
                 ELSE IF turn.tag # "Ok" THEN turn
                 ELSE IF castling.tag # "Ok" THEN castling
                 ELSE IF ep.tag # "Ok" THEN ep
                 ELSE IF ep2.tag # "Ok" THEN ep2
                 ELSE Ok(MakeGame(board.val, turn.val, ep2.val, castling.val))

\* EncodeCastling writing the black letters first
EncodeCastling_BlackFirst(g) ==
    LET castling == (IF g.black_kingside_castle THEN <<"k">> ELSE <<>>)
                    \o (IF g.black_queenside_castle THEN <<"q">> ELSE <<>>)
                    \o (IF g.white_kingside_castle THEN <<"K">> ELSE <<>>)
                    \o (IF g.white_queenside_castle THEN <<"Q">> ELSE <<>>)
    IN  IF castling = <<>> THEN <<"-">> ELSE castling

\* lines 92-113
EncodeCastling(g) ==
    LET castling == (IF g.white_kingside_castle THEN <<"K">> ELSE <<>>)
                    \o (IF g.white_queenside_castle THEN <<"Q">> ELSE <<>>)
                    \o (IF g.black_kingside_castle THEN <<"k">> ELSE <<>>)
                    \o (IF g.black_queenside_castle THEN <<"q">> ELSE <<>>)
    IN  IF castling = <<>> THEN <<"-">> ELSE castling

\* EncodeEpRank stepping the way the decoder does
EncodeEpRank_DecoderStep(turn, ep_y, checks) ==
    IF turn = "White" THEN UsizeAdd(ep_y, 1, checks) ELSE UsizeSub(ep_y, 1, checks)

\* lines 116-120: the rank of the square behind the pawn
EncodeEpRank(turn, ep_y, checks) ==
    IF turn = "White" THEN UsizeSub(ep_y, 1, checks) ELSE UsizeAdd(ep_y, 1, checks)

\* EncodeEnPassant printing the pawn's own square
EncodeEnPassant_PawnSquare(g, checks) ==
    IF g.en_passant = <<>> THEN Ok(<<"-">>)
    ELSE LET ep_x == g.en_passant[1]
             inv  == UsizeSub(7, g.en_passant[2], checks)
             rank == UsizeAdd(Ord("1"), inv.val, checks)
             file == UsizeAdd(Ord("a"), ep_x, checks)
         IN  IF inv.tag # "Ok" THEN inv
             ELSE IF rank.tag # "Ok" THEN rank
             ELSE IF file.tag # "Ok" THEN file
             ELSE Ok(<<CharFromU8(file.val), CharFromU8(rank.val)>>)

\* lines 115-128
EncodeEnPassant(g, checks) ==
    IF g.en_passant = <<>> THEN Ok(<<"-">>)
    ELSE LET ep_x == g.en_passant[1]
             ep_y == EncodeEpRank(g.turn, g.en_passant[2], checks)
             inv  == UsizeSub(7, ep_y.val, checks)
             rank == UsizeAdd(Ord("1"), inv.val, checks)
             file == UsizeAdd(Ord("a"), ep_x, checks)
         IN  IF ep_y.tag # "Ok" THEN ep_y
             ELSE IF inv.tag # "Ok" THEN inv
             ELSE IF rank.tag # "Ok" THEN rank
             ELSE IF file.tag # "Ok" THEN file
             ELSE Ok(<<CharFromU8(file.val), CharFromU8(rank.val)>>)

fen(g, checks) ==
    LET board == Board_fen(g.board)
        turn == IF g.turn = "White" THEN <<"w">> ELSE <<"b">>
        castling == EncodeCastling(g)
        ep == EncodeEnPassant(g, checks)
    IN  IF ep.tag # "Ok" THEN ep
        ELSE Ok(board \o <<" ">> \o turn \o <<" ">> \o castling \o <<" ">> \o ep.val)

---------------------------------------------------------------------------
(* Inputs. *)

\* the strings of at most n characters over alphabet
StringsUpTo(alphabet, n) == UNION {[1..k -> alphabet] : k \in 0..n}

RECURSIVE Join(_, _)
Join(parts, sep) ==
    IF Len(parts) = 0 THEN <<>>
    ELSE IF Len(parts) = 1 THEN parts[1]
    ELSE parts[1] \o <<sep>> \o Join(Tail(parts), sep)

\* "rnbqkbnr/pppppppp/8/8/8/8/PPPPPPPP/RNBQKBNR" (line 209, the starting position)
StartPlacement ==
    <<"r","n","b","q","k","b","n","r","/","p","p","p","p","p","p","p","p",
      "/","8","/","8","/","8","/","8","/","P","P","P","P","P","P","P","P",
      "/","R","N","B","Q","K","B","N","R">>

\* "rnbqkbnr/pppppppp/8/8/2P5/8/PP1PPPPP/RNBQKBNR" (line 212, after 1. c4)
EnglishPlacement ==
    <<"r","n","b","q","k","b","n","r","/","p","p","p","p","p","p","p","p",
      "/","8","/","8","/","2","P","5","/","8","/","P","P","1","P","P","P",
      "P","P","/","R","N","B","Q","K","B","N","R">>

\* "5bnr/pp1p1ppp/nbrp4/1k2pQN1/2B1q3/6N1/PPPRPPPP/R1B1K3" (line 211)
MiddlePlacement ==
    <<"5","b","n","r","/","p","p","1","p","1","p","p","p","/","n","b","r",
      "p","4","/","1","k","2","p","Q","N","1","/","2","B","1","q","3","/",
      "6","N","1","/","P","P","P","R","P","P","P","P","/","R","1","B","1",
      "K","3">>

\* "8/8/8/8/8/8/8/8" (the empty board)
EmptyPlacement ==
    <<"8","/","8","/","8","/","8","/","8","/","8","/","8","/","8">>

Placements == {EnglishPlacement, MiddlePlacement, EmptyPlacement}

TurnFields == {<<"w">>, <<"b">>}

\* castling fields of the decoder's inputs: the dash, the empty field, letters
\* in and out of the encoder's order, a repeat, a stranger, five letters
DecodeCastlingFields ==
    {<<"-">>, <<>>, <<"K">>, <<"Q","k">>, <<"k","Q">>, <<"K","Q","k","q">>,
     <<"q","k","Q","K">>, <<"K","K">>, <<"K","x">>, <<"K","Q","k","q","K">>}

\* en-passant fields of the decoder's inputs: the dash, every square, and a
\* rank, a file and a length out of range
DecodeEnPassantFields ==
    {<<"-">>, <<"e","9">>, <<"i","3">>, <<"e">>, <<"e","3","3">>}
    \cup {<<Files[i], Ranks[j]>> : i \in 1..Len(Files), j \in 1..Len(Ranks)}

FourFieldInputs ==
    {Join(<<p, t, c, e>>, " ") :
        p \in Placements, t \in TurnFields,
        c \in DecodeCastlingFields, e \in DecodeEnPassantFields}

\* inputs with another number of fields, a bad turn, a bad placement, and the
\* strings of the test of lines 206-219
OtherInputs ==
    {<<>>,
     EmptyPlacement,
     Join(<<EmptyPlacement, <<"w">> >>, " "),
     Join(<<EmptyPlacement, <<"w">>, <<"-">> >>, " "),
     Join(<<EmptyPlacement, <<"w">>, <<"-">>, <<"-">>, <<"0">> >>, " "),
     Join(<<EmptyPlacement, <<"w">>, <<>>, <<"-">>, <<"-">> >>, " "),
     Join(<<EmptyPlacement, <<"w">>, <<"-">>, <<"-">>, <<"0">>, <<"1">> >>, " "),
     Join(<<EmptyPlacement, <<"x">>, <<"-">>, <<"-">> >>, " "),
     Join(<<EmptyPlacement, <<>>, <<"-">>, <<"-">> >>, " "),
     Join(<<EmptyPlacement, <<"w">>, <<"K","K","Q","Q">>, <<"-">> >>, " "),
     Join(<<<<"8","/","8">>, <<"w">>, <<"-">>, <<"-">> >>, " "),
     Join(<<<<"x">>, <<"w">>, <<"-">>, <<"-">> >>, " "),
     Join(<<StartPlacement, <<"w">>, <<"K","Q","k","q">>, <<"-">> >>, " "),
     Join(<<StartPlacement, <<"w">>, <<"K","Q","k","q">>, <<"e","8">> >>, " ")}

FenInputs == FourFieldInputs \cup OtherInputs

CastlingAlphabet == {"K", "Q", "k", "q", "x", "-"}

CastlingFields == StringsUpTo(CastlingAlphabet, MaxCastlingLen)

EnPassantAlphabet == CharSet(Files) \cup CharSet(Ranks) \cup {"i", "9", "0", "-"}

EnPassantFields == StringsUpTo(EnPassantAlphabet, MaxEnPassantLen)

Boards == {Board_from_fen(p).val : p \in Placements}

Squares == {<<x, y>> : x \in 0..(BoardSize - 1), y \in 0..(BoardSize - 1)}

\* every Game value over the boards above
Games ==
    {MakeGame(b, t, ep, c) :
        b \in Boards, t \in {"White", "Black"}, ep \in {<<>>} \cup Squares,
        c \in [1..4 -> BOOLEAN]}

---------------------------------------------------------------------------
(* The calls. *)

NoResult == [tag |-> "None", err |-> "", val |-> NoVal]

NoGame == <<>>

Idle ==
    /\ decoded = NoResult
    /\ game = NoGame
    /\ encoded = NoResult
    /\ redecoded = NoResult
    /\ field_result = NoResult

\* a caller holds a string to decode
Init ==
    /\ fen_in \in FenInputs
    /\ field = <<>>
    /\ overflow_checks \in BOOLEAN
    /\ tile_oob_panics \in BOOLEAN
    /\ pc = "start"
    /\ Idle

\* Game::from_fen(fen_in)
FromFen ==
    /\ pc = "start"
    /\ decoded' = from_fen(fen_in, overflow_checks, tile_oob_panics)
    /\ game' = IF decoded'.tag = "Ok" THEN decoded'.val ELSE game
    /\ pc' = IF decoded'.tag = "Ok" THEN "game" ELSE "failed"
    /\ UNCHANGED <<fen_in, field, overflow_checks, tile_oob_panics, encoded,
                   redecoded, field_result>>

\* game.fen()
Fen ==
    /\ pc = "game"
    /\ encoded' = fen(game, overflow_checks)
    /\ pc' = IF encoded'.tag = "Ok" THEN "fen" ELSE "failed"
    /\ UNCHANGED <<fen_in, field, overflow_checks, tile_oob_panics, decoded,
                   game, redecoded, field_result>>

\* Game::from_fen(game.fen())
FromFenAgain ==
    /\ pc = "fen"
    /\ redecoded' = from_fen(encoded.val, overflow_checks, tile_oob_panics)
    /\ pc' = "done"
    /\ UNCHANGED <<fen_in, field, overflow_checks, tile_oob_panics, decoded,
                   game, encoded, field_result>>

Next == FromFen \/ Fen \/ FromFenAgain

Spec == Init /\ [][Next]_vars

\* a caller holds any Game value
InitEncode ==
    /\ fen_in = <<>>
    /\ field = <<>>
    /\ overflow_checks \in BOOLEAN
    /\ tile_oob_panics = FALSE
    /\ pc = "game"
    /\ game \in Games
    /\ decoded = NoResult
    /\ encoded = NoResult
    /\ redecoded = NoResult
    /\ field_result = NoResult

NextEncode == Fen

SpecEncode == InitEncode /\ [][NextEncode]_vars

\* castling_part(field)
CastlingPart ==
    /\ pc = "start"
    /\ field_result' = castling_part(field)
    /\ pc' = "castling_part"
    /\ UNCHANGED <<fen_in, field, overflow_checks, tile_oob_panics, decoded,
                   game, encoded, redecoded>>

InitCastling ==
    /\ fen_in = <<>>
    /\ field \in CastlingFields
    /\ overflow_checks = FALSE
    /\ tile_oob_panics = FALSE
    /\ pc = "start"
    /\ Idle

NextCastling == CastlingPart

SpecCastling == InitCastling /\ [][NextCastling]_vars

\* en_passant(field)
EnPassant ==
    /\ pc = "start"
    /\ field_result' = en_passant(field)
    /\ pc' = "en_passant"
    /\ UNCHANGED <<fen_in, field, overflow_checks, tile_oob_panics, decoded,
                   game, encoded, redecoded>>

InitEnPassant ==
    /\ fen_in = <<>>
    /\ field \in EnPassantFields
    /\ overflow_checks = FALSE
    /\ tile_oob_panics = FALSE
    /\ pc = "start"
    /\ Idle

NextEnPassant == EnPassant

SpecEnPassant == InitEnPassant /\ [][NextEnPassant]_vars

---------------------------------------------------------------------------
(* Vocabulary of the properties below: the fields of the input as FEN text *)
(* defines them, computed in the integers and apart from the decoder.      *)

InParts == Split(fen_in, " ")

FourFields == Len(InParts) = 4

\* a field of the form [a-h][1-8]
WellFormedSquare(f) ==
    /\ Len(f) = 2
    /\ f[1] \in {"a", "b", "c", "d", "e", "f", "g", "h"}
    /\ f[2] \in {"1", "2", "3", "4", "5", "6", "7", "8"}

FileIndex(f) == Ord(f[1]) - Ord("a")

RankIndex(f) == 8 - (Ord(f[2]) - Ord("0"))

\* the square of the pawn behind the en-passant square f, seen from the mover
PawnRank(f, turnField) ==
    IF turnField = <<"w">> THEN RankIndex(f) + 1 ELSE RankIndex(f) - 1

\* the letters of f, each at most once, in the order K, Q, k, q
InEncoderOrder(f) ==
    LET pos(c) == CHOOSE i \in 1..4 : <<"K", "Q", "k", "q">>[i] = c
    IN  /\ \A i \in 1..Len(f) : f[i] \in {"K", "Q", "k", "q"}
        /\ \A i \in 1..Len(f) : \A j \in 1..Len(f) : i < j => pos(f[i]) < pos(f[j])

CanonicalCastling(f) == f = <<"-">> \/ (f # <<>> /\ InEncoderOrder(f))

NoRepeats(f) == \A i \in 1..Len(f) : \A j \in 1..Len(f) : f[i] = f[j] => i = j

OnlyCastlingLetters(f) == \A i \in 1..Len(f) : f[i] \in {"K", "Q", "k", "q"}

\* placement, turn and castling fields the decoder takes
ValidHead ==
    /\ FourFields
    /\ InParts[1] \in Placements \cup {StartPlacement}
    /\ InParts[2] \in TurnFields
    /\ InParts[3] = <<"-">> \/ (Len(InParts[3]) <= 4 /\ NoRepeats(InParts[3])
                                /\ OnlyCastlingLetters(InParts[3]))

\* the tile of board text p at file x and internal rank y, both on the board
TileAt(p, x, y) == PieceOf(Board_from_fen(p).val[y * 8 + x + 1])

---------------------------------------------------------------------------
(* C1 *)

\* C1 as stated: every string that Game::from_fen accepts is returned
\* unchanged by Game::fen on the decoded game.
C1_RoundTripAnyAccepted ==
    (decoded.tag = "Ok" /\ encoded # NoResult) => encoded = Ok(fen_in)

\* C1, amended: every accepted string whose castling field is "-" or lists
\* its letters in the order K, Q, k, q is returned unchanged by Game::fen on
\* the decoded game.
C1_RoundTripCanonical ==
    (decoded.tag = "Ok" /\ pc # "game" /\ CanonicalCastling(InParts[3]))
        => encoded = Ok(fen_in)

C1_Witness ==
    /\ pc = "fen"
    /\ InParts[3] = <<"Q", "k">>
    /\ InParts[4] = <<"e", "6">>
    /\ encoded = Ok(fen_in)

---------------------------------------------------------------------------
(* C2 *)

\* C2: every input that does not split into exactly 4 fields makes
\* Game::from_fen return the error IncorrectAmountOfParts.
C2_FieldCountGuard ==
    (decoded # NoResult /\ ~FourFields) => decoded = Err("IncorrectAmountOfParts")

---------------------------------------------------------------------------
(* C3 *)

\* C3: with a well-formed en-passant square, Game::from_fen returns Ok only
\* if the tile one rank behind it (internal rank + 1 for White to move, - 1
\* for Black) holds a pawn of the side not to move, and then stores that
\* tile's coordinate; if that tile holds nothing, another piece or a pawn
\* of the side to move, it returns InvalidEnPassant.
C3_EnPassantSemanticCheck ==
    (decoded # NoResult /\ ValidHead /\ WellFormedSquare(InParts[4])) =>
        LET x == FileIndex(InParts[4])
            y == PawnRank(InParts[4], InParts[2])
            mover == IF InParts[2] = <<"w">> THEN "White" ELSE "Black"
            other == IF InParts[2] = <<"w">> THEN "Black" ELSE "White"
        IN  /\ decoded.tag = "Ok" =>
                /\ OnBoard(x, y)
                /\ TileAt(InParts[1], x, y) = [piece_type |-> "Pawn", color |-> other]
                /\ decoded.val.en_passant = <<x, y>>
                /\ PieceOf(decoded.val.board[y * 8 + x + 1]).piece_type = "Pawn"
                /\ PieceOf(decoded.val.board[y * 8 + x + 1]).color # decoded.val.turn
            /\ (OnBoard(x, y) /\ TileAt(InParts[1], x, y)
                                    # [piece_type |-> "Pawn", color |-> other])
                => decoded = Err("InvalidEnPassant")

C3_Witness ==
    /\ decoded = Err("InvalidEnPassant")
    /\ ValidHead
    /\ InParts[2] = <<"w">>
    /\ InParts[4] = <<"c", "5">>
    /\ TileAt(InParts[1], 2, 4) = [piece_type |-> "Pawn", color |-> "White"]

---------------------------------------------------------------------------
(* C4 *)

\* C4: on four fields with valid placement, turn and castling and an
\* en-passant field in [a-h][1-8], Game::from_fen returns Ok or an error
\* value, and InvalidEnPassant when the rank behind the square is off the
\* board (rank 8 with Black to move, rank 1 with White to move).
C4_DecodeTotal ==
    (decoded # NoResult /\ ValidHead /\ WellFormedSquare(InParts[4])) =>
        /\ decoded.tag \in {"Ok", "Err"}
        /\ ~OnBoard(FileIndex(InParts[4]), PawnRank(InParts[4], InParts[2]))
            => decoded = Err("InvalidEnPassant")

---------------------------------------------------------------------------
(* C5 *)

\* C5: Game::fen returns a string for every Game whose en-passant square is
\* None or on the board, and renders a square as a letter in a-h followed by
\* a digit in 1-8.
C5_EncodeTotal ==
    encoded # NoResult =>
        /\ encoded.tag = "Ok"
        /\ game.en_passant # <<>> => WellFormedSquare(Split(encoded.val, " ")[4])

---------------------------------------------------------------------------
(* C6 *)

\* C6: for every en-passant field in [a-h][1-8] and side to move that
\* Game::from_fen accepts, the en-passant field printed by Game::fen on the
\* decoded game is the same text.
C6_EnPassantTextRoundTrip ==
    (decoded.tag = "Ok" /\ pc # "game" /\ WellFormedSquare(InParts[4])) =>
        /\ encoded.tag = "Ok"
        /\ Split(encoded.val, " ")[4] = InParts[4]

C6_Witness ==
    /\ pc = "fen"
    /\ InParts[2] = <<"b">>
    /\ InParts[4] = <<"c", "3">>
    /\ game.en_passant = <<2, 4>>
    /\ Split(encoded.val, " ")[4] = <<"c", "3">>

---------------------------------------------------------------------------
(* C7 *)

\* C7: castling_part("-") is four times false, and a field of letters from
\* K, Q, k, q without a repeat, in any order, gives the flags (K present,
\* Q present, k present, q present): permutations of one another give the
\* same flags.
C7_CastlingSetSemantics ==
    pc = "castling_part" =>
        /\ field = <<"-">> => field_result = Ok(<<FALSE, FALSE, FALSE, FALSE>>)
        /\ (OnlyCastlingLetters(field) /\ NoRepeats(field)) =>
              field_result = Ok(<<"K" \in CharSet(field), "Q" \in CharSet(field),
                                  "k" \in CharSet(field), "q" \in CharSet(field)>>)

C7_Witness ==
    /\ pc = "castling_part"
    /\ field = <<"q", "Q">>
    /\ field_result = Ok(<<FALSE, TRUE, FALSE, TRUE>>)

---------------------------------------------------------------------------
(* C8 *)

\* C8: en_passant("-") is None; another field not of 2 characters fails
\* with IncorrectAmountOfTiles; a 2-character field with a first character
\* outside a-h or a second outside 1-8 fails with UnknownCharacter; any
\* other field gives Some((index of the letter in a..h, 8 - digit)).
C8_EnPassantParse ==
    pc = "en_passant" =>
        IF field = <<"-">> THEN field_result = Ok(<<>>)
        ELSE IF Len(field) # 2 THEN field_result = Err("IncorrectAmountOfTiles")
        ELSE IF ~WellFormedSquare(field) THEN field_result = Err("UnknownCharacter")
        ELSE field_result = Ok(<<FileIndex(field), RankIndex(field)>>)

C8_Witness ==
    /\ pc = "en_passant"
    /\ field = <<"h", "8">>
    /\ field_result = Ok(<<7, 0>>)

---------------------------------------------------------------------------
(* C9 *)

\* C9 as stated: for a field other than "-", more than 4 characters give
\* IncorrectLength, a repeated character gives
\* RepeatingCharactersInCastlingPart, a character outside K, Q, k, q gives
\* UnknownCharacter, each for every field that meets the condition, and a
\* field meeting none of them is accepted.
C9_EachRuleAlone ==
    (pc = "castling_part" /\ field # <<"-">>) =>
        /\ Len(field) > 4 => field_result = Err("IncorrectLength")
        /\ ~NoRepeats(field) => field_result = Err("RepeatingCharactersInCastlingPart")
        /\ ~OnlyCastlingLetters(field) => field_result = Err("UnknownCharacter")
        /\ (Len(field) <= 4 /\ NoRepeats(field) /\ OnlyCastlingLetters(field))
              => field_result.tag = "Ok"

\* C9, amended: for a field other than "-", the first rule that applies
\* decides: more than 4 characters give IncorrectLength; otherwise a
\* repeated character gives RepeatingCharactersInCastlingPart; otherwise a
\* character outside K, Q, k, q gives UnknownCharacter; otherwise the field
\* is accepted.
C9_FirstRuleDecides ==
    (pc = "castling_part" /\ field # <<"-">>) =>
        IF Len(field) > 4 THEN field_result = Err("IncorrectLength")
        ELSE IF ~NoRepeats(field)
        THEN field_result = Err("RepeatingCharactersInCastlingPart")
        ELSE IF ~OnlyCastlingLetters(field) THEN field_result = Err("UnknownCharacter")
        ELSE field_result.tag = "Ok"

C9_Witness ==
    /\ pc = "castling_part"
    /\ field = <<"x", "x", "K", "K", "Q">>
    /\ field_result = Err("IncorrectLength")

---------------------------------------------------------------------------
(* C10 *)

\* C10: the string Game::fen gives for a decoded game is accepted by
\* Game::from_fen and decodes to the same game (board, turn, castling
\* flags, en-passant square), so encoding that game again gives the same
\* string.
C10_EncoderOutputIsCanonical ==
    /\ (decoded.tag = "Ok" /\ pc # "game") => encoded.tag = "Ok"
    /\ pc = "done" =>
        /\ redecoded.tag = "Ok"
        /\ redecoded.val = game
        /\ fen(redecoded.val, overflow_checks) = encoded

C10_Witness ==
    /\ pc = "done"
    /\ InParts[3] = <<"q", "k", "Q", "K">>
    /\ InParts[4] = <<"e", "6">>
    /\ encoded.val # fen_in
    /\ redecoded.tag = "Ok"
    /\ redecoded.val = game

=============================================================================
